---- MODULE Spec2Model ----
(***************************************************************************)
(* The evaluable snippets of the learning-webgpu notes:                    *)
(*   docs/fundamentals.md          drawTrianglesToTextures, doubleGPU,     *)
(*                                 the high-resolution canvas block, fail  *)
(*   docs/inter-stage-variables.md drawTriangleWithShader,                 *)
(*                                 drawTriangleWithFragmentShader, fail    *)
(* Every eval block of a page is one slot (a call).  An action is one run  *)
(* of the JavaScript thread: from the evaluation of a block, the settling  *)
(* of an awaited promise or an animation-frame callback up to the next     *)
(* await or the function's return.  The browser is the environment: it     *)
(* chooses what requestAdapter and requestDevice resolve to, the           *)
(* devicePixelRatio and the layout width.                                  *)
(***************************************************************************)
EXTENDS Integers, Sequences, FiniteSets, TLC

VARIABLES
  pc,         \* [call -> where the call is suspended]
  entry,      \* [call -> the eval block that was evaluated]
  fn,         \* [call -> the async function invoked by the block]
  arg,        \* [call -> the arguments and the browser inputs of the block]
  loc,        \* [call -> the function's local constants (object ids)]
  log,        \* [call -> the operations executed, each with its turn]
  ret,        \* [call -> what the block's function returned / settled to]
  turn,       \* [call -> number of runs of the JavaScript thread in that call]
  heap,       \* every object created so far: heap[id] = [kind, by]
  canvases,   \* canvas id -> [width, height, device, view, drawn]
  modules,    \* shader module id -> the descriptor it was compiled from
  pipelines,  \* pipeline id -> [vertex, fragment, compute] module ids
  buffers,    \* GPU buffer id -> [data, mapState, hist]
  arrays,     \* ArrayBuffer id -> its contents
  detached,   \* the ArrayBuffers detached by unmap
  touched,    \* [call -> bag of the data indexes written by shader invocations]
  alerts      \* the pop-ups shown: sequence of [by, msg]

vars == <<pc, entry, fn, arg, loc, log, ret, turn, heap, canvases, modules,
          pipelines, buffers, arrays, detached, touched, alerts>>

----------------------------------------------------------------------------
(* Bounds of the model *)

\* eval blocks running concurrently on one page (specification SpecPage)
NumCalls == 2
\* longest input array of doubleGPU
MaxLen == 2

Calls == 1..NumCalls

\* no object / undefined / null
Null == 0
Undefined == "undefined"

\* the numbers of the input arrays: small ones, a negative one and
\* 2^24 + 1, the first integer that is no 32-bit float
Numbers == {-5, 1, 3, 16777217}

RECURSIVE SeqsUpTo(_, _)
SeqsUpTo(S, n) ==
  IF n = 0 THEN {<<>>}
  ELSE LET shorter == SeqsUpTo(S, n - 1)
       IN  shorter \cup {Append(s, x) : s \in {t \in shorter : Len(t) = n - 1}, x \in S}

NumberArrays == SeqsUpTo(Numbers, MaxLen)

\* the browser's devicePixelRatio and the page width of the notebook
DevicePixelRatios == {0, 1, 2, 3}
PageWidths == {100, 688}

----------------------------------------------------------------------------
(* Values *)

\* a shader module descriptor {label, code}; code is the list of the entry
\* points of the WGSL string
Descriptor(label, code) == [label |-> label, code |-> code]

\* an omitted argument
UndefinedArg == Descriptor(Undefined, <<>>)

\* the descriptor drawTrianglesToTextures hardcodes
RedTriangle == Descriptor("our hardcoded red triangle shaders", <<"vs red", "fs red">>)

\* the descriptors the notes pass to drawTriangleWithShader
RgbTriangle ==
  Descriptor("our hardcoded rgb triangle shaders", <<"vs rgb", "fs color">>)
CheckerTriangle ==
  Descriptor("hardcoded checkerboard triangle shaders", <<"vs plain", "fs checker">>)
vsModule == Descriptor("hardcoded triangle", <<"vs plain">>)
fsModule == Descriptor("checkerboard", <<"fs checker by position">>)

\* the fragment source the notes pass to drawTriangleWithFragmentShader
LocationFragment == "fs color by location"

\* the descriptor drawTriangleWithFragmentShader builds around `fragment`
FragmentDescriptor(fragment) ==
  Descriptor("our hardcoded rgb triangle shaders", <<"vs rgb", fragment>>)

\* the descriptor of the doubling compute module
DoublingModule == Descriptor("doubling compute module", <<"computeSomething">>)

\* the size of a canvas element that was never resized
DefaultCanvasWidth == 300
DefaultCanvasHeight == 150

\* pass.draw(3)
VertexCount == 3

\* @workgroup_size(1)
WorkgroupSize == 1

\* bytes of one Float32Array element
BytesPerElement == 4

----------------------------------------------------------------------------
(* 32-bit floats, on the integers *)

\* the spacing of the 32-bit floats around x >= 0 (24 significant bits)
RECURSIVE Ulp(_)
Ulp(x) == IF x < 16777216 THEN 1 ELSE 2 * Ulp(x \div 2)

\* x >= 0 rounded to the nearest 32-bit float, ties to the even mantissa
FroundNat(x) ==
  LET q  == Ulp(x)
      r  == x % q
      lo == x - r
  IN  IF 2 * r < q THEN lo
      ELSE IF 2 * r > q THEN lo + q
      ELSE IF (lo \div q) % 2 = 0 THEN lo ELSE lo + q

\* the conversion of a number stored into a Float32Array
Fround(x) == IF x < 0 THEN -FroundNat(-x) ELSE FroundNat(x)

\* new Float32Array(numbers)
Float32Array(numbers) == [i \in 1..Len(numbers) |-> Fround(numbers[i])]

\* the statement of the compute shader: data[i] * 2.0, in f32
computeSomethingBad(x) == Fround(x + 2)
computeSomething(x) == Fround(x * 2)

\* a zero-initialised buffer of `size` bytes, as f32 elements
Zeros(size) == [i \in 1..(size \div BytesPerElement) |-> 0]

\* pass.dispatchWorkgroups(n): the global_invocation_id.x of every invocation
InvocationIds(n) ==
  {w * WorkgroupSize + l : w \in 0..(n - 1), l \in 0..(WorkgroupSize - 1)}

RECURSIVE Times(_, _)
Times(x, k) == IF k = 0 THEN x ELSE computeSomething(Times(x, k - 1))

\* the work buffer after the compute pass: invocation id writes data[id];
\* an id past the end of the array writes nothing
RunCompute(data, n) ==
  [i \in 1..Len(data) |-> Times(data[i], Cardinality({id \in InvocationIds(n) : id = i - 1}))]

\* encoder.copyBufferToBuffer(src, 0, dst, 0, size)
CopyBuffer(src, dst, size) ==
  [i \in 1..Len(dst) |-> IF i <= size \div BytesPerElement /\ i <= Len(src) THEN src[i] ELSE dst[i]]

----------------------------------------------------------------------------
(* State helpers *)

\* f extended (or overwritten) at k
Ext(f, k, v) == [x \in DOMAIN f \cup {k} |-> IF x = k THEN v ELSE f[x]]

\* the operations of one run of the thread, each stamped with the run's turn
Stamp(ops, t) == [i \in 1..Len(ops) |-> [op |-> ops[i], turn |-> t]]

\* h after creating one object of each of `kinds`, in order, by call c
Alloc(h, kinds, c) == h \o [i \in 1..Len(kinds) |-> [kind |-> kinds[i], by |-> c]]

\* document.createElement("canvas")
NewCanvas ==
  [width |-> DefaultCanvasWidth, height |-> DefaultCanvasHeight,
   styleWidth |-> 0, styleHeight |-> 0, device |-> Null, drawn |-> <<>>]

\* canvas.clientWidth / clientHeight of a mounted canvas whose style sets
\* its size: the style's px (styleHeight is kept in 1/1000 px), rounded
ClientWidth(cv) == cv.styleWidth
ClientHeight(cv) == (cv.styleHeight + 500) \div 1000

NoArgs ==
  [numbers |-> <<>>, shader |-> UndefinedArg, fragmentShader |-> UndefinedArg,
   canvas |-> Null, high |-> FALSE, devicePixelRatio |-> 0, width |-> 0]

NoLocals ==
  [adapter |-> Null, device |-> Null, canvas |-> Null, module |-> Null,
   fragmentModule |-> Null, pipeline |-> Null, descriptor |-> Null,
   encoder |-> Null, workBuffer |-> Null, resultBuffer |-> Null,
   mapped |-> Null, result |-> Null,
   widthAtCall |-> 0, heightAtCall |-> 0, input |-> <<>>]

Settled(kind, id) == [kind |-> kind, id |-> id]

----------------------------------------------------------------------------
(* The statements of each run, in program order *)

\* fail(msg)
FailMessage == "need a browser that supports WebGPU"

\* if (!device) { fail(...); return; }
DeviceMissing(device) == device = Null
FailOpsNoReturn == <<"fail", "alert", "getContext", "getPreferredCanvasFormat", "configure">>
FailOps == <<"fail", "alert", "return undefined">>

\* function render() of drawTrianglesToTextures
renderOpsTwice ==
  <<"getCurrentTexture", "createView", "createCommandEncoder", "beginRenderPass",
    "setPipeline", "draw", "end", "finish", "submit",
    "getCurrentTexture", "createView", "createCommandEncoder", "beginRenderPass",
    "setPipeline", "draw", "end", "finish", "submit">>
renderOps ==
  <<"getCurrentTexture", "createView", "createCommandEncoder", "beginRenderPass",
    "setPipeline", "draw", "end", "finish", "submit">>

\* function render() of drawTriangleWithShader
renderShaderOps ==
  <<"getCurrentTexture", "createView", "createCommandEncoder", "beginRenderPass",
    "setPipeline", "draw", "end", "finish", "submit">>

\* drawTrianglesToTextures: the call, up to the first await
TrianglesCallOps(canvas) ==
  <<"call drawTrianglesToTextures">>
    \o (IF canvas = Null THEN <<"createElement canvas">> ELSE <<>>)
    \o <<"requestAdapter">>

\* every function: the run after requestAdapter settled
AdapterOps(adapter) ==
  <<"await requestAdapter">>
    \o (IF adapter = Null THEN <<"throw TypeError">> ELSE <<"requestDevice">>)

\* drawTrianglesToTextures: the run after requestDevice settled
TrianglesDeviceOps(device) ==
  <<"await requestDevice">>
    \o (IF DeviceMissing(device) THEN FailOps
        ELSE <<"getContext", "getPreferredCanvasFormat", "configure",
               "createShaderModule", "createRenderPipeline">>
               \o renderOps \o <<"return canvas">>)

\* fragmentShader ? device.createShaderModule(fragmentShader) : module
NeverSeparate(fragmentShader) == FALSE
SeparateFragment(fragmentShader) == fragmentShader # UndefinedArg

\* drawTriangleWithShader: the run after requestDevice settled
ShaderDeviceOpsPipelineFirst(device, fragmentShader) ==
  <<"await requestDevice", "createElement canvas", "read devicePixelRatio",
    "getContext", "getPreferredCanvasFormat", "createRenderPipeline",
    "createShaderModule", "configure">>
    \o renderShaderOps \o <<"return canvas">>
ShaderDeviceOps(device, fragmentShader) ==
  <<"await requestDevice">>
    \o (IF DeviceMissing(device) THEN FailOps
        ELSE <<"createElement canvas", "read devicePixelRatio", "getContext",
               "getPreferredCanvasFormat", "configure", "createShaderModule">>
               \o (IF SeparateFragment(fragmentShader)
                   THEN <<"createShaderModule">> ELSE <<>>)
               \o <<"createRenderPipeline">>
               \o renderShaderOps \o <<"return canvas">>)

\* doubleGPU: the run after requestDevice settled, up to await mapAsync
DoubleDeviceOps(device) ==
  <<"await requestDevice">>
    \o (IF DeviceMissing(device) THEN FailOps
        ELSE <<"createShaderModule", "createComputePipeline", "new Float32Array",
               "createBuffer work", "writeBuffer", "createBuffer result",
               "getBindGroupLayout", "createBindGroup", "createCommandEncoder",
               "beginComputePass", "setPipeline", "setBindGroup",
               "dispatchWorkgroups", "end", "copyBufferToBuffer", "finish",
               "submit", "mapAsync">>)

\* doubleGPU: the run after mapAsync settled
DoubleMapOps ==
  <<"await mapAsync", "getMappedRange", "slice", "new Float32Array", "unmap",
    "return result">>

\* the high-resolution block, before it calls or defers
BlockOps ==
  <<"createElement canvas", "read devicePixelRatio", "set style.width",
    "set style.height">>

\* the callback given to requestAnimationFrame, before it calls
TimeoutOps == <<"timeout callback", "set canvas.width", "set canvas.height">>
FrameOps == <<"animation frame callback", "set canvas.width", "set canvas.height">>

\* canvas.width = canvas.clientWidth * 2
PixelScale == 2

----------------------------------------------------------------------------
(* Initial state: the page is loaded, no block was evaluated *)

Init ==
  /\ pc = [c \in Calls |-> "init"]
  /\ entry = [c \in Calls |-> "none"]
  /\ fn = [c \in Calls |-> "none"]
  /\ arg = [c \in Calls |-> NoArgs]
  /\ loc = [c \in Calls |-> NoLocals]
  /\ log = [c \in Calls |-> <<>>]
  /\ ret = [c \in Calls |-> Settled("none", Null)]
  /\ turn = [c \in Calls |-> 0]
  /\ heap = <<>>
  /\ canvases = <<>>
  /\ modules = <<>>
  /\ pipelines = <<>>
  /\ buffers = <<>>
  /\ arrays = <<>>
  /\ detached = {}
  /\ touched = [c \in Calls |-> <<>>]
  /\ alerts = <<>>

----------------------------------------------------------------------------
(* drawTrianglesToTextures *)

\* the call drawTrianglesToTextures(canvas), made after the statements
\* `before` of the caller changed the heap to hp and the canvases to cvs;
\* the caller goes on with `after` once the call has returned its promise
CallTriangles(c, canvas, hp, cvs, before, after) ==
  LET made == canvas = Null
      cv   == IF made THEN Len(hp) + 1 ELSE canvas
      all  == IF made THEN Ext(cvs, cv, NewCanvas) ELSE cvs
  IN  /\ fn' = [fn EXCEPT ![c] = "drawTrianglesToTextures"]
      /\ heap' = IF made THEN Alloc(hp, <<"canvas">>, c) ELSE hp
      /\ canvases' = all
      /\ loc' = [loc EXCEPT ![c].canvas = cv,
                            ![c].widthAtCall = all[cv].width,
                            ![c].heightAtCall = all[cv].height]
      /\ log' = [log EXCEPT ![c] =
                   @ \o Stamp(before \o TrianglesCallOps(canvas) \o after, turn[c] + 1)]
      /\ ret' = [ret EXCEPT ![c] = Settled("pending", Null)]
      /\ pc' = [pc EXCEPT ![c] = "awaitAdapter"]
      /\ turn' = [turn EXCEPT ![c] = @ + 1]

\* the eval block `drawTrianglesToTextures();`
EvalTriangles(c) ==
  /\ pc[c] = "init"
  /\ entry' = [entry EXCEPT ![c] = "drawTrianglesToTextures()"]
  /\ CallTriangles(c, Null, heap, canvases, <<>>, <<>>)
  /\ UNCHANGED <<arg, modules, pipelines, buffers, arrays, detached, touched, alerts>>

\* const adapter = await navigator.gpu.requestAdapter();
\* const device = await adapter.requestDevice();
\* the browser resolved requestAdapter, to an adapter (ok) or to null
AdapterSettled(c, ok) ==
  LET adapter == IF ok THEN Len(heap) + 1 ELSE Null
  IN  /\ pc[c] = "awaitAdapter"
      /\ heap' = IF ok THEN Alloc(heap, <<"adapter">>, c) ELSE heap
      /\ loc' = [loc EXCEPT ![c].adapter = adapter]
      /\ log' = [log EXCEPT ![c] = @ \o Stamp(AdapterOps(adapter), turn[c] + 1)]
      /\ pc' = [pc EXCEPT ![c] = IF ok THEN "awaitDevice" ELSE "rejected"]
      /\ ret' = [ret EXCEPT ![c] = IF ok THEN @ ELSE Settled("TypeError", Null)]
      /\ turn' = [turn EXCEPT ![c] = @ + 1]
      /\ UNCHANGED <<entry, fn, arg, canvases, modules, pipelines, buffers,
                     arrays, detached, touched, alerts>>

TrianglesAdapter(c, ok) ==
  /\ fn[c] = "drawTrianglesToTextures"
  /\ AdapterSettled(c, ok)

\* if (!device) { fail("need a browser that supports WebGPU"); return; }
\* the browser resolved requestDevice to nothing
DeviceFailed(c, ops) ==
  /\ pc[c] = "awaitDevice"
  /\ alerts' = Append(alerts, [by |-> c, msg |-> FailMessage])
  /\ log' = [log EXCEPT ![c] = @ \o Stamp(ops, turn[c] + 1)]
  /\ ret' = [ret EXCEPT ![c] = Settled("undefined", Null)]
  /\ pc' = [pc EXCEPT ![c] = "done"]
  /\ turn' = [turn EXCEPT ![c] = @ + 1]
  /\ UNCHANGED <<entry, fn, arg, loc, heap, canvases, modules, pipelines,
                 buffers, arrays, detached, touched>>

\* the render pass drawn by the submitted command buffer
Drawing(c, device, mods, pipeline) ==
  [by |-> c, device |-> device, vertex |-> mods[pipeline.vertex],
   fragment |-> mods[pipeline.fragment], count |-> VertexCount]

\* the rest of drawTrianglesToTextures, with a device
TrianglesDraw(c) ==
  LET base     == Len(heap)
      device   == base + 1
      module   == base + 2
      pipeline == base + 3
      cv       == loc[c].canvas
      mods     == Ext(modules, module, RedTriangle)
      built    == [vertex |-> module, fragment |-> module, compute |-> Null]
  IN  /\ pc[c] = "awaitDevice"
      /\ heap' = Alloc(heap, <<"device", "module", "pipeline", "descriptor",
                               "encoder">>, c)
      /\ modules' = mods
      /\ pipelines' = Ext(pipelines, pipeline, built)
      /\ canvases' = [canvases EXCEPT
                        ![cv].device = device,
                        ![cv].drawn = Append(@, Drawing(c, device, mods, built))]
      /\ loc' = [loc EXCEPT ![c].device = device, ![c].module = module,
                            ![c].fragmentModule = module,
                            ![c].pipeline = pipeline,
                            ![c].descriptor = base + 4,
                            ![c].encoder = base + 5]
      /\ log' = [log EXCEPT ![c] = @ \o Stamp(TrianglesDeviceOps(device), turn[c] + 1)]
      /\ ret' = [ret EXCEPT ![c] = Settled("canvas", cv)]
      /\ pc' = [pc EXCEPT ![c] = "done"]
      /\ turn' = [turn EXCEPT ![c] = @ + 1]
      /\ UNCHANGED <<entry, fn, arg, buffers, arrays, detached, touched, alerts>>

TrianglesDevice(c, ok) ==
  /\ fn[c] = "drawTrianglesToTextures"
  /\ IF ok THEN TrianglesDraw(c) ELSE DeviceFailed(c, TrianglesDeviceOps(Null))

----------------------------------------------------------------------------
(* drawTriangleWithShader, drawTriangleWithFragmentShader *)

\* the call drawTriangleWithShader(shader, fragmentShader), up to the first await
CallShader(c, shader, fragmentShader) ==
  /\ fn' = [fn EXCEPT ![c] = "drawTriangleWithShader"]
  /\ arg' = [arg EXCEPT ![c].shader = shader, ![c].fragmentShader = fragmentShader]
  /\ log' = [log EXCEPT ![c] =
               @ \o Stamp(<<"call drawTriangleWithShader", "requestAdapter">>, turn[c] + 1)]
  /\ ret' = [ret EXCEPT ![c] = Settled("pending", Null)]
  /\ pc' = [pc EXCEPT ![c] = "awaitAdapter"]
  /\ turn' = [turn EXCEPT ![c] = @ + 1]
  /\ UNCHANGED <<loc, heap, canvases, modules, pipelines, buffers, arrays,
                 detached, touched, alerts>>

\* the eval blocks `drawTriangleWithShader({...})` and
\* `return drawTriangleWithShader(vsModule, fsModule)`
EvalShader(c, shader, fragmentShader) ==
  /\ pc[c] = "init"
  /\ entry' = [entry EXCEPT ![c] = "drawTriangleWithShader()"]
  /\ CallShader(c, shader, fragmentShader)

\* the eval block `drawTriangleWithFragmentShader(...)`:
\* return drawTriangleWithShader({label, code: vs + fragment})
EvalFragment(c, fragment) ==
  /\ pc[c] = "init"
  /\ entry' = [entry EXCEPT ![c] = "drawTriangleWithFragmentShader()"]
  /\ CallShader(c, FragmentDescriptor(fragment), UndefinedArg)

ShaderAdapter(c, ok) ==
  /\ fn[c] = "drawTriangleWithShader"
  /\ AdapterSettled(c, ok)

\* const context = canvas.getContext("webgpu"): the canvas the context draws to
FirstCanvasOfPage(canvas, all) == CHOOSE k \in DOMAIN all : \A j \in DOMAIN all : k <= j
ContextCanvas(canvas, all) == canvas

\* the rest of drawTriangleWithShader, with a device
ShaderDraw(c) ==
  LET base     == Len(heap)
      device   == base + 1
      cv       == base + 2
      module   == base + 3
      separate == SeparateFragment(arg[c].fragmentShader)
      fragment == IF separate THEN base + 4 ELSE module
      pipeline == fragment + 1
      mods     == IF separate
                  THEN Ext(Ext(modules, module, arg[c].shader),
                           fragment, arg[c].fragmentShader)
                  ELSE Ext(modules, module, arg[c].shader)
      built    == [vertex |-> module, fragment |-> fragment, compute |-> Null]
      all      == Ext(canvases, cv, NewCanvas)
      target   == ContextCanvas(cv, all)
  IN  /\ pc[c] = "awaitDevice"
      /\ heap' = Alloc(heap,
                       <<"device", "canvas", "module">>
                         \o (IF separate THEN <<"module">> ELSE <<>>)
                         \o <<"pipeline", "descriptor", "encoder">>, c)
      /\ modules' = mods
      /\ pipelines' = Ext(pipelines, pipeline, built)
      /\ canvases' = [all EXCEPT
                        ![target].device = device,
                        ![target].drawn = Append(@, Drawing(c, device, mods, built))]
      /\ loc' = [loc EXCEPT ![c].device = device, ![c].canvas = cv,
                            ![c].module = module,
                            ![c].fragmentModule = fragment,
                            ![c].pipeline = pipeline,
                            ![c].descriptor = pipeline + 1,
                            ![c].encoder = pipeline + 2]
      /\ log' = [log EXCEPT ![c] =
                   @ \o Stamp(ShaderDeviceOps(device, arg[c].fragmentShader), turn[c] + 1)]
      /\ ret' = [ret EXCEPT ![c] = Settled("canvas", cv)]
      /\ pc' = [pc EXCEPT ![c] = "done"]
      /\ turn' = [turn EXCEPT ![c] = @ + 1]
      /\ UNCHANGED <<entry, fn, arg, buffers, arrays, detached, touched, alerts>>

ShaderDevice(c, ok) ==
  /\ fn[c] = "drawTriangleWithShader"
  /\ IF ok THEN ShaderDraw(c)
     ELSE DeviceFailed(c, ShaderDeviceOps(Null, arg[c].fragmentShader))

----------------------------------------------------------------------------
(* doubleGPU *)

\* the eval block `doubleGPU([1, 3, 5])`: the call, up to the first await
EvalDouble(c, numbers) ==
  /\ pc[c] = "init"
  /\ entry' = [entry EXCEPT ![c] = "doubleGPU()"]
  /\ fn' = [fn EXCEPT ![c] = "doubleGPU"]
  /\ arg' = [arg EXCEPT ![c].numbers = numbers]
  /\ log' = [log EXCEPT ![c] =
               @ \o Stamp(<<"call doubleGPU", "requestAdapter">>, turn[c] + 1)]
  /\ ret' = [ret EXCEPT ![c] = Settled("pending", Null)]
  /\ pc' = [pc EXCEPT ![c] = "awaitAdapter"]
  /\ turn' = [turn EXCEPT ![c] = @ + 1]
  /\ UNCHANGED <<loc, heap, canvases, modules, pipelines, buffers, arrays,
                 detached, touched, alerts>>

DoubleAdapter(c, ok) ==
  /\ fn[c] = "doubleGPU"
  /\ AdapterSettled(c, ok)

\* pass.dispatchWorkgroups(input.length)
WorkgroupCount(input) == Len(input)

\* the indexes written by the dispatch, each with its number of invocations
Touched(n) == [id \in InvocationIds(n) |-> 1]

\* the rest of doubleGPU, with a device, up to `await resultBuffer.mapAsync`
DoubleCompute(c) ==
  LET base     == Len(heap)
      device   == base + 1
      module   == base + 2
      pipeline == base + 3
      work     == base + 4
      result   == base + 5
      input    == Float32Array(arg[c].numbers)
      size     == Len(input) * BytesPerElement
      \* device.queue.writeBuffer(workBuffer, 0, input)
      written  == CopyBuffer(input, Zeros(size), size)
      \* the submitted command buffer: the compute pass, then the copy
      computed == RunCompute(written, WorkgroupCount(input))
      copied   == CopyBuffer(computed, Zeros(size), size)
  IN  /\ pc[c] = "awaitDevice"
      /\ heap' = Alloc(heap, <<"device", "module", "pipeline", "buffer", "buffer",
                               "bindGroup", "encoder">>, c)
      /\ modules' = Ext(modules, module, DoublingModule)
      /\ pipelines' = Ext(pipelines, pipeline,
                          [vertex |-> Null, fragment |-> Null, compute |-> module])
      /\ buffers' = Ext(Ext(buffers, work,
                            [data |-> computed, hist |-> <<"unmapped">>]),
                        result,
                        [data |-> copied, hist |-> <<"unmapped", "pending">>])
      /\ touched' = [touched EXCEPT ![c] = Touched(WorkgroupCount(input))]
      /\ loc' = [loc EXCEPT ![c].device = device, ![c].module = module,
                            ![c].pipeline = pipeline, ![c].workBuffer = work,
                            ![c].resultBuffer = result, ![c].encoder = base + 7,
                            ![c].input = input]
      /\ log' = [log EXCEPT ![c] = @ \o Stamp(DoubleDeviceOps(device), turn[c] + 1)]
      /\ pc' = [pc EXCEPT ![c] = "awaitMap"]
      /\ turn' = [turn EXCEPT ![c] = @ + 1]
      /\ UNCHANGED <<entry, fn, arg, ret, canvases, arrays, detached, alerts>>

DoubleDevice(c, ok) ==
  /\ fn[c] = "doubleGPU"
  /\ IF ok THEN DoubleCompute(c) ELSE DeviceFailed(c, DoubleDeviceOps(Null))

\* resultBuffer.getMappedRange().slice(): the ArrayBuffer the result views
NoCopy(range, fresh) == range
Slice(range, fresh) == fresh

\* const result = new Float32Array(resultBuffer.getMappedRange().slice());
\* resultBuffer.unmap(); return result;
DoubleMap(c) ==
  LET rb     == loc[c].resultBuffer
      range  == Len(heap) + 1
      fresh  == Len(heap) + 2
      backing == Slice(range, fresh)
  IN  /\ fn[c] = "doubleGPU"
      /\ pc[c] = "awaitMap"
      /\ heap' = Alloc(heap, <<"ArrayBuffer", "ArrayBuffer">>, c)
      /\ arrays' = Ext(Ext(arrays, range, buffers[rb].data), fresh, buffers[rb].data)
      /\ buffers' = [buffers EXCEPT ![rb].hist = @ \o <<"mapped", "unmapped">>]
      /\ detached' = detached \cup {range}
      /\ loc' = [loc EXCEPT ![c].mapped = range, ![c].result = backing]
      /\ log' = [log EXCEPT ![c] = @ \o Stamp(DoubleMapOps, turn[c] + 1)]
      /\ ret' = [ret EXCEPT ![c] = Settled("Float32Array", backing)]
      /\ pc' = [pc EXCEPT ![c] = "done"]
      /\ turn' = [turn EXCEPT ![c] = @ + 1]
      /\ UNCHANGED <<entry, fn, arg, canvases, modules, pipelines, touched, alerts>>

\* what the caller reads from a returned Float32Array: the elements of its
\* ArrayBuffer, none once the buffer is detached
Elements(c) == IF ret[c].id \in detached THEN <<>> ELSE arrays[ret[c].id]

----------------------------------------------------------------------------
(* The high-resolution canvas block *)

\* window.devicePixelRatio || 1
RatioOrOne(ratio) == IF ratio = 0 THEN 1 ELSE ratio

\* the block, evaluated with the toggle `high`, on a display of the given
\* devicePixelRatio (0: the browser defines none), in a notebook `width` px wide
EvalBlock(c, high, ratio, width) ==
  LET cv     == Len(heap) + 1
      styled == [NewCanvas EXCEPT !.styleWidth = width, !.styleHeight = width * 618]
      hp     == Alloc(heap, <<"canvas">>, c)
      cvs    == Ext(canvases, cv, styled)
      \* const devicePixelRatio = window.devicePixelRatio || 1;
      inputs == [arg[c] EXCEPT !.high = high,
                               !.devicePixelRatio = RatioOrOne(ratio),
                               !.width = width, !.canvas = cv]
  IN  /\ pc[c] = "init"
      /\ entry' = [entry EXCEPT ![c] = "high resolution block"]
      /\ arg' = [arg EXCEPT ![c] = inputs]
      /\ IF ~high
         THEN \* if (!high) return drawTrianglesToTextures(canvas);
              /\ CallTriangles(c, cv, hp, cvs, BlockOps, <<"return promise">>)
              /\ UNCHANGED <<modules, pipelines, buffers, arrays, detached,
                             touched, alerts>>
         ELSE \* requestAnimationFrame(() => {...}); return canvas;
              /\ heap' = hp
              /\ canvases' = cvs
              /\ loc' = [loc EXCEPT ![c].canvas = cv]
              /\ log' = [log EXCEPT ![c] =
                           @ \o Stamp(BlockOps \o <<"requestAnimationFrame",
                                                    "return canvas">>, turn[c] + 1)]
              /\ pc' = [pc EXCEPT ![c] = "frame"]
              /\ turn' = [turn EXCEPT ![c] = @ + 1]
              /\ UNCHANGED <<fn, ret, modules, pipelines, buffers, arrays,
                             detached, touched, alerts>>

\* the animation-frame callback: resize the canvas, then draw
\* (the canvas the block returned is mounted by then)
AnimationFrame(c) ==
  LET cv      == arg[c].canvas
      resized == [canvases EXCEPT
                    ![cv].width = ClientWidth(canvases[cv]) * PixelScale,
                    ![cv].height = ClientHeight(canvases[cv]) * PixelScale]
  IN  /\ pc[c] = "frame"
      /\ CallTriangles(c, cv, heap, resized, FrameOps, <<>>)
      /\ UNCHANGED <<entry, arg, modules, pipelines, buffers, arrays, detached,
                     touched, alerts>>

----------------------------------------------------------------------------
(* Specifications *)

\* the arguments the notes pass to drawTriangleWithShader
ShaderCalls ==
  {<<RgbTriangle, UndefinedArg>>, <<CheckerTriangle, UndefinedArg>>,
   <<vsModule, fsModule>>}

\* one block of a page, with every input
Next ==
  \E c \in {1} :
    \/ EvalTriangles(c)
    \/ \E ok \in BOOLEAN : TrianglesAdapter(c, ok)
    \/ \E ok \in BOOLEAN : TrianglesDevice(c, ok)
    \/ \E call \in ShaderCalls : EvalShader(c, call[1], call[2])
    \/ EvalFragment(c, LocationFragment)
    \/ \E ok \in BOOLEAN : ShaderAdapter(c, ok)
    \/ \E ok \in BOOLEAN : ShaderDevice(c, ok)
    \/ \E numbers \in NumberArrays : EvalDouble(c, numbers)
    \/ \E ok \in BOOLEAN : DoubleAdapter(c, ok)
    \/ \E ok \in BOOLEAN : DoubleDevice(c, ok)
    \/ DoubleMap(c)
    \/ \E high \in BOOLEAN, ratio \in DevicePixelRatios, width \in PageWidths :
         EvalBlock(c, high, ratio, width)
    \/ AnimationFrame(c)

Spec == Init /\ [][Next]_vars

\* the blocks of a page, running concurrently
NextPage ==
  \E c \in Calls :
    \/ EvalTriangles(c)
    \/ \E ok \in BOOLEAN : TrianglesAdapter(c, ok)
    \/ \E ok \in BOOLEAN : TrianglesDevice(c, ok)
    \/ EvalShader(c, vsModule, fsModule)
    \/ \E ok \in BOOLEAN : ShaderAdapter(c, ok)
    \/ \E ok \in BOOLEAN : ShaderDevice(c, ok)
    \/ EvalDouble(c, <<3, 16777217>>)
    \/ \E ok \in BOOLEAN : DoubleAdapter(c, ok)
    \/ \E ok \in BOOLEAN : DoubleDevice(c, ok)
    \/ DoubleMap(c)
    \/ EvalBlock(c, TRUE, 2, 100)
    \/ AnimationFrame(c)

SpecPage == Init /\ [][NextPage]_vars

----------------------------------------------------------------------------
(* Reading the state *)

\* the operations call c executed, in order
Ops(c) == [i \in 1..Len(log[c]) |-> log[c][i].op]

\* where call c executed op
Pos(c, op) == {i \in 1..Len(log[c]) : log[c][i].op = op}

Count(c, op) == Cardinality(Pos(c, op))

\* every op b of call c comes after some op a
Precedes(c, a, b) == \A j \in Pos(c, b) : \E i \in Pos(c, a) : i < j

\* every op a of call c comes before every op b
AllBefore(c, a, b) == \A i \in Pos(c, a), j \in Pos(c, b) : i < j

AlertsBy(c) == Cardinality({i \in 1..Len(alerts) : alerts[i].by = c})

\* the objects of a kind that call c created
Created(c, kind) == {i \in 1..Len(heap) : heap[i].kind = kind /\ heap[i].by = c}

\* the drawings of call c, on any canvas
DrawnBy(c) ==
  UNION {{<<k, i>> : i \in {j \in 1..Len(canvases[k].drawn) : canvases[k].drawn[j].by = c}} :
           k \in DOMAIN canvases}

RenderFunctions == {"drawTrianglesToTextures", "drawTriangleWithShader"}
Functions == RenderFunctions \cup {"doubleGPU"}

\* the function of call c ran to its end with a device
Succeeded(c) == pc[c] = "done" /\ ret[c].kind \in {"canvas", "Float32Array"}

\* device acquisition failed in call c: a request resolved to nothing
AcquisitionFailed(c) ==
  \/ Count(c, "await requestAdapter") = 1 /\ loc[c].adapter = Null
  \/ Count(c, "await requestDevice") = 1 /\ loc[c].device = Null

\* the operations on the GPU API (navigator.gpu, the canvas context, the
\* device, its queue, the encoders)
GpuOps ==
  {"requestAdapter", "requestDevice", "getContext", "getPreferredCanvasFormat",
   "configure", "createShaderModule", "createRenderPipeline",
   "createComputePipeline", "createBuffer work", "createBuffer result",
   "writeBuffer", "getBindGroupLayout", "createBindGroup", "getCurrentTexture",
   "createView", "createCommandEncoder", "beginRenderPass", "beginComputePass",
   "setPipeline", "setBindGroup", "draw", "dispatchWorkgroups", "end",
   "copyBufferToBuffer", "finish", "submit", "mapAsync", "getMappedRange",
   "unmap"}

IsGpuOp(op) == op \in GpuOps

\* the GPU operations of call c, in order
GpuLog(c) == SelectSeq(Ops(c), IsGpuOp)

----------------------------------------------------------------------------
(* C1: device acquisition *)

\* C1: in each of the three functions, whenever device acquisition fails at
\* any step (requestAdapter yields no adapter, or requestDevice yields no
\* device), fail is called exactly once (one alert) and the call completes
\* by returning undefined rather than by rejecting.
C1_AlertOnEveryFailure ==
  \A c \in Calls :
    fn[c] \in Functions /\ AcquisitionFailed(c) =>
      /\ AlertsBy(c) = 1
      /\ Count(c, "fail") = 1
      /\ pc[c] = "done"
      /\ ret[c].kind = "undefined"

----------------------------------------------------------------------------
(* C2: the failure path does no GPU work *)

\* what the functions do with a device
WorkOps == GpuOps \ {"requestAdapter", "requestDevice"}

WorkKinds ==
  {"device", "module", "pipeline", "descriptor", "encoder", "buffer",
   "bindGroup", "ArrayBuffer"}

\* C2: once a call has shown the alert it has returned: it configured no
\* canvas context, created no shader module, pipeline, buffer, bind group or
\* command encoder, and submitted nothing to a queue.
C2_FailureDoesNothing ==
  \A c \in Calls :
    AlertsBy(c) > 0 =>
      /\ pc[c] = "done"
      /\ ret[c].kind = "undefined"
      /\ \A i \in 1..Len(log[c]) : log[c][i].op \notin WorkOps
      /\ \A kind \in WorkKinds : Created(c, kind) = {}
      /\ DrawnBy(c) = {}
      /\ loc[c].canvas # Null => canvases[loc[c].canvas].device = Null

C2_Witness ==
  \E c \in Calls :
    /\ fn[c] = "drawTrianglesToTextures"
    /\ AlertsBy(c) = 1
    /\ alerts[1].msg = FailMessage
    /\ pc[c] = "done"

----------------------------------------------------------------------------
(* C3: where execution is deferred *)

\* the first statement of a run resumed by a settled await
AwaitResumes == {"await requestAdapter", "await requestDevice", "await mapAsync"}

\* call c's j-th operation ran in a later turn than the one before it
Deferred(c, j) == log[c][j].turn # log[c][j - 1].turn

\* C3 (as claimed): the only points at which execution is deferred to a later
\* turn are the awaits on requestAdapter / requestDevice and on mapAsync;
\* every other step, the high-resolution block included, runs in the turn
\* that reached it.
C3_OnlyAwaitsDefer ==
  \A c \in Calls : \A j \in 2..Len(log[c]) :
    Deferred(c, j) <=> log[c][j].op \in AwaitResumes

\* C3 (amended): execution is deferred at the three awaits and at the
\* animation-frame callback of the high-resolution block, and nowhere else.
C3_AwaitsAndFrameDefer ==
  \A c \in Calls : \A j \in 2..Len(log[c]) :
    Deferred(c, j) <=> log[c][j].op \in AwaitResumes \cup {"animation frame callback"}

C3_Witness ==
  \E c \in Calls :
    /\ entry[c] = "high resolution block"
    /\ arg[c].high
    /\ pc[c] = "done"
    /\ ret[c].kind = "canvas"
    /\ \E j \in 2..Len(log[c]) :
         Deferred(c, j) /\ log[c][j].op = "animation frame callback"

----------------------------------------------------------------------------
(* C4: the order of the key steps of a drawing *)

\* C4: in every successful run of drawTrianglesToTextures and
\* drawTriangleWithShader the GPU operations start with the request of the
\* device (requestAdapter, then requestDevice on it) and end with
\* queue.submit, and between them the context is configured, then the shader
\* module(s) created, then the render pipeline, then the command encoder.
C4_KeyStepsInOrder ==
  \A c \in Calls :
    fn[c] \in RenderFunctions /\ Succeeded(c) =>
      LET g == GpuLog(c)
      IN  /\ Len(g) >= 2
          /\ g[1] = "requestAdapter"
          /\ g[2] = "requestDevice"
          /\ g[Len(g)] = "submit"
          /\ Count(c, "configure") = 1
          /\ Count(c, "createShaderModule") >= 1
          /\ Count(c, "createRenderPipeline") = 1
          /\ Count(c, "createCommandEncoder") = 1
          /\ AllBefore(c, "requestDevice", "configure")
          /\ AllBefore(c, "configure", "createShaderModule")
          /\ AllBefore(c, "createShaderModule", "createRenderPipeline")
          /\ AllBefore(c, "createRenderPipeline", "createCommandEncoder")
          /\ AllBefore(c, "createCommandEncoder", "submit")

C4_Witness ==
  \E c \in Calls :
    /\ fn[c] = "drawTriangleWithShader"
    /\ Succeeded(c)
    /\ Count(c, "createShaderModule") = 2
    /\ Len(canvases[ret[c].id].drawn) = 1

----------------------------------------------------------------------------
(* C5: one draw or dispatch, one submission, no retry *)

\* C5: each successful invocation issues exactly one draw call or exactly
\* one compute dispatch, submits exactly one command buffer, and requests
\* the adapter and the device exactly once each, whatever its arguments.
C5_OneDrawOneSubmit ==
  \A c \in Calls :
    fn[c] \in Functions /\ Succeeded(c) =>
      /\ Count(c, "draw") + Count(c, "dispatchWorkgroups") = 1
      /\ Count(c, "draw") = (IF fn[c] \in RenderFunctions THEN 1 ELSE 0)
      /\ Count(c, "finish") = 1
      /\ Count(c, "submit") = 1
      /\ Count(c, "requestAdapter") = 1
      /\ Count(c, "requestDevice") = 1
      /\ Cardinality(Created(c, "adapter")) = 1
      /\ Cardinality(Created(c, "device")) = 1
      /\ Cardinality(DrawnBy(c)) = (IF fn[c] \in RenderFunctions THEN 1 ELSE 0)

C5_Witness ==
  \E c \in Calls :
    /\ fn[c] = "doubleGPU"
    /\ Succeeded(c)
    /\ Len(arg[c].numbers) = MaxLen
    /\ Count(c, "dispatchWorkgroups") = 1

----------------------------------------------------------------------------
(* C6: what doubleGPU computes *)

\* one invocation for each index 0 .. n-1, none for any other index
OncePerIndex(c, n) == touched[c] = [id \in 0..(n - 1) |-> 1]

----------------------------------------------------------------------------
(* C7: the pixel size of the high-resolution canvas *)

\* the high-resolution block of call c has called drawTrianglesToTextures
BlockCalled(c) ==
  entry[c] = "high resolution block" /\ fn[c] = "drawTrianglesToTextures"

\* C7: with the toggle on, when drawTrianglesToTextures is called on the
\* canvas its pixel size is its client size times the devicePixelRatio, for
\* every devicePixelRatio; with the toggle off it is the default size.
C7_MatchesDevicePixelRatio ==
  \A c \in Calls :
    BlockCalled(c) =>
      LET cv == canvases[arg[c].canvas]
      IN  IF arg[c].high
          THEN /\ loc[c].widthAtCall = ClientWidth(cv) * arg[c].devicePixelRatio
               /\ loc[c].heightAtCall = ClientHeight(cv) * arg[c].devicePixelRatio
          ELSE /\ loc[c].widthAtCall = DefaultCanvasWidth
               /\ loc[c].heightAtCall = DefaultCanvasHeight

----------------------------------------------------------------------------
(* C8: the protocol of the result buffer of doubleGPU *)

\* the mapping states a result buffer goes through
MapProtocol == <<"unmapped", "pending", "mapped", "unmapped">>

IsPrefix(s, t) == Len(s) <= Len(t) /\ \A i \in 1..Len(s) : s[i] = t[i]

\* C8: in doubleGPU the input is written to the work buffer before the
\* command buffer is submitted, the copy to the result buffer is encoded
\* after the compute pass has ended, mapAsync is requested only after
\* submit, getMappedRange is called only after mapAsync has resolved (in a
\* later turn), the data is copied out of the mapped range before unmap,
\* the result buffer goes unmapped -> pending -> mapped -> unmapped, and the
\* returned array is never a view of the unmapped (detached) range.
C8_ResultBufferProtocol ==
  \A c \in Calls :
    fn[c] = "doubleGPU" =>
      /\ Precedes(c, "writeBuffer", "submit")
      /\ Precedes(c, "dispatchWorkgroups", "end")
      /\ Precedes(c, "end", "copyBufferToBuffer")
      /\ Precedes(c, "copyBufferToBuffer", "finish")
      /\ Precedes(c, "submit", "mapAsync")
      /\ Precedes(c, "mapAsync", "await mapAsync")
      /\ Precedes(c, "await mapAsync", "getMappedRange")
      /\ \A i \in Pos(c, "mapAsync"), j \in Pos(c, "getMappedRange") :
           log[c][i].turn < log[c][j].turn
      /\ Precedes(c, "getMappedRange", "slice")
      /\ Precedes(c, "slice", "unmap")
      /\ loc[c].resultBuffer # Null =>
           /\ IsPrefix(buffers[loc[c].resultBuffer].hist, MapProtocol)
           /\ pc[c] = "awaitMap" =>
                buffers[loc[c].resultBuffer].hist = <<"unmapped", "pending">>
           /\ pc[c] = "done" => buffers[loc[c].resultBuffer].hist = MapProtocol
      /\ Succeeded(c) =>
           /\ loc[c].mapped \in detached
           /\ ret[c].id \notin detached
           /\ ret[c].id # loc[c].mapped
           /\ Len(Elements(c)) = Len(arg[c].numbers)

C8_Witness ==
  \E c \in Calls :
    /\ fn[c] = "doubleGPU"
    /\ Succeeded(c)
    /\ Len(arg[c].numbers) > 0
    /\ buffers[loc[c].resultBuffer].hist = MapProtocol
    /\ loc[c].mapped \in detached

----------------------------------------------------------------------------
(* C9: one shader module or two *)

----------------------------------------------------------------------------
(* C10: concurrent invocations share nothing *)

\* the local objects of a call
Locals(c) ==
  {loc[c].adapter, loc[c].device, loc[c].canvas, loc[c].module,
   loc[c].fragmentModule, loc[c].pipeline, loc[c].descriptor, loc[c].encoder,
   loc[c].workBuffer, loc[c].resultBuffer, loc[c].mapped, loc[c].result} \ {Null}

\* the shader modules call c's function is given
VertexSource(c) ==
  IF fn[c] = "drawTrianglesToTextures" THEN RedTriangle ELSE arg[c].shader
FragmentSource(c) ==
  IF fn[c] = "drawTrianglesToTextures" THEN RedTriangle
  ELSE IF arg[c].fragmentShader # UndefinedArg THEN arg[c].fragmentShader
  ELSE arg[c].shader

\* C10: concurrent invocations share no mutable state: each uses objects of
\* its own (device, canvas, pipeline, render-pass descriptor, encoder,
\* buffers), and under every interleaving each draws to and returns its own
\* canvas only (or its own result), with the outcome of running alone.
C10_Isolated ==
  \A c \in Calls :
    /\ \A d \in Calls \ {c} : Locals(c) \cap Locals(d) = {}
    /\ \A k \in Locals(c) : heap[k].by = c
    /\ fn[c] \in RenderFunctions /\ Succeeded(c) =>
         /\ ret[c].id = loc[c].canvas
         /\ DrawnBy(c) = {<<ret[c].id, 1>>}
         /\ canvases[ret[c].id].device = loc[c].device
         /\ canvases[ret[c].id].drawn =
              <<[by |-> c, device |-> loc[c].device, vertex |-> VertexSource(c),
                 fragment |-> FragmentSource(c), count |-> VertexCount]>>
    /\ fn[c] = "doubleGPU" /\ Succeeded(c) =>
         /\ ret[c].id = loc[c].result
         /\ Elements(c) = [i \in 1..Len(arg[c].numbers) |->
                             Fround(2 * Fround(arg[c].numbers[i]))]

\* two drawTriangleWithShader calls interleaved at their awaits, both done
C10_Witness ==
  \E c \in Calls, d \in Calls :
    /\ c # d
    /\ fn[c] = "drawTriangleWithShader" /\ fn[d] = "drawTriangleWithShader"
    /\ Succeeded(c) /\ Succeeded(d)
    /\ loc[c].adapter < loc[d].adapter
    /\ loc[d].device < loc[c].device

====
